---- MODULE Spec2Model ----
(***************************************************************************)
(* Model of src/main.js, the unified site script of the Visit Goa site:    *)
(* the page detector and the DOMContentLoaded dispatch, the shared         *)
(* features (mobile navigation, lazy loading), the attractions search and  *)
(* category filter, and the trip-planning form with its validators.        *)
(*                                                                         *)
(* Strings are sequences of one-character strings, so that split,          *)
(* includes, trim, toLowerCase and the e-mail pattern are computed         *)
(* character by character as the script computes them.                     *)
(***************************************************************************)
EXTENDS Integers, Sequences, FiniteSets, TLC

VARIABLES
    \* ---- page detection and dispatch (window.location, DOMContentLoaded)
    path,            \* window.location.pathname
    loaded,          \* TRUE once the DOMContentLoaded handler has run
    currentPage,     \* const currentPage of the handler ("none" before it)
    initLog,         \* the initialisers the handler called, in call order
    \* ---- mobile navigation
    ariaExpanded,    \* menuToggle's aria-expanded: "absent", "true", "false"
    menuActive,      \* navMenu.classList.contains('active')
    navFocus,        \* document.activeElement: "toggle", "firstLink", "other"
    hasFirstLink,    \* navMenu.querySelector('a') is not null
    innerWidth,      \* window.innerWidth
    resizeTimer,     \* the debounce timeout of the resize listener is pending
    navTrace,        \* the last events, each with the state it started from
    \* ---- lazy images
    ioAvailable,     \* 'IntersectionObserver' in window
    lazyInitDone,    \* initLazyLoading has run
    observed,        \* images the imageObserver observes
    imgLoaded,       \* images having the 'loaded' class
    inViewport,      \* images currently intersecting the root
    \* ---- attractions page
    cards,           \* the .attraction-card elements, in document order
    searchValue,     \* searchInput.value
    searchTimer,     \* the debounce timeout of the input listener is pending
    cardDisplay,     \* card.style.display of every card: "" or "none"
    announcer,       \* #search-announcer: << >> when absent, or <<visible, total>>
    activeTabs,      \* filter tabs having the 'active' class
    lastAttr,        \* the last attractions handler that ran
    lastTab,         \* data-category of the last filter tab clicked
    \* ---- trip planning page
    selectedInterests, \* PlanTripPage.selectedInterests
    activeTags,      \* interest tags having the 'active' class
    btnText,         \* submitBtn.textContent
    btnDisabled,     \* submitBtn.disabled
    submitTimers,    \* pending 1500 ms timeouts, each with its closure
    notifications,   \* notifications shown so far, oldest first
    nowUTC,          \* current time, half hours since the epoch (UTC)
    tzOffset,        \* local time minus UTC, half hours
    tagInterest,     \* the data-interest attribute of every interest tag
    planLast,        \* the last plan-page handler that ran, and for a
                     \* submit listener the check that ended it
    \* ---- validators applied to drawn inputs
    emailArg,        \* argument of validateEmail
    emailResult,     \* its result: "none", "valid", or the message kind
    checkinArg,      \* arguments of validateDates
    checkoutArg,
    dateResult,      \* its result: "none", "valid", "checkin", "checkout"
    \* ---- observers of the plan page, kept only where a property needs them
    tracked,         \* position in notifications of the notification
                     \* being followed, 0 when none is
    tagTrace,        \* the last tag clicks, each with the selection it
                     \* started from
    submitFacts,     \* what holds of the values of the last submit: the
                     \* checks they fail, and whether a date is missing
    \* ---- stub API client
    apiCall,         \* the API operation in progress or last settled
    apiFetch,        \* how its fetch settled: pending, or the response
    apiResult,       \* what the caller's await received
    apiLog,          \* console.error calls of the operations, capped
    \* ---- presence of the elements the features look up
    present,         \* the looked-up elements the document contains
    registered,      \* the listeners the initialisers have added
    thrown,          \* the error an initialiser or listener raised
    \* ---- beaches page
    beaches,         \* data-region of the .beach-card elements
    beachDisplay,    \* beach.style.display of every beach card
    beachAnnouncer,  \* #filter-announcer: << >> when absent, or <<count, where>>
    lastRegion,      \* data-region of the last region card clicked
    beachScrolls,    \* where the page is scrolled to: "top", "section", or
                     \* "noSection" when it has no .featured-beaches
    \* ---- culture page
    itemKind,        \* "timeline" or "card" for every animated element
    cultInitDone,    \* CulturePage.init has run
    cultObserved,    \* elements their observer observes
    cultPending,     \* elements with a queued intersecting observer entry
    itemStyle,       \* style.opacity of every element ("" as in the markup)
    cultViewport,    \* elements currently intersecting the root
    scheduled,       \* for each element how often its reveal was scheduled
                     \* and how many of its reveal timeouts are pending
    \* ---- back-to-top control
    pageYOffset,     \* window.pageYOffset
    topVisible,      \* backToTopBtn.classList.contains('visible')
    inThrottle,      \* inThrottle of the throttled scroll handler
    handledAt        \* pageYOffset when the handler last ran, -1 before

pageVars == <<path, loaded, currentPage, initLog>>
navVars  == <<ariaExpanded, menuActive, navFocus, hasFirstLink, innerWidth,
              resizeTimer, navTrace>>
lazyVars == <<ioAvailable, lazyInitDone, observed, imgLoaded, inViewport>>
attrVars == <<cards, searchValue, searchTimer, cardDisplay, announcer,
              activeTabs, lastAttr, lastTab>>
planVars == <<selectedInterests, activeTags, btnText, btnDisabled,
              submitTimers, notifications, tagInterest, planLast>>
clockVars == <<nowUTC, tzOffset>>
valVars  == <<emailArg, emailResult, checkinArg, checkoutArg, dateResult>>

obsVars  == <<tracked, tagTrace, submitFacts>>
apiVars  == <<apiCall, apiFetch, apiResult, apiLog>>
elemVars == <<present, registered, thrown>>
beachVars == <<beaches, beachDisplay, beachAnnouncer, lastRegion, beachScrolls>>
cultVars == <<itemKind, cultInitDone, cultObserved, cultPending, itemStyle,
              cultViewport, scheduled>>
topVars  == <<pageYOffset, topVisible, inThrottle, handledAt>>
restVars == <<apiVars, elemVars, beachVars, cultVars, topVars>>

vars == <<pageVars, navVars, lazyVars, attrVars, planVars, clockVars, valVars,
          obsVars, restVars>>

(***************************************************************************)
(* Strings                                                                 *)
(***************************************************************************)

\* String.prototype.includes
Includes(s, sub) ==
    \E i \in 0..(Len(s) - Len(sub)) : SubSeq(s, i + 1, i + Len(sub)) = sub

\* the index of the first sep in s at or after position i, 0 when none
RECURSIVE IndexFrom(_, _, _)
IndexFrom(s, sep, i) ==
    IF i > Len(s) THEN 0
    ELSE IF s[i] = sep THEN i
    ELSE IndexFrom(s, sep, i + 1)

\* String.prototype.split with a one-character separator
RECURSIVE Split(_, _)
Split(s, sep) ==
    LET k == IndexFrom(s, sep, 1)
    IN  IF k = 0 THEN << s >>
        ELSE << SubSeq(s, 1, k - 1) >> \o Split(SubSeq(s, k + 1, Len(s)), sep)

\* Array.prototype.pop: the last element
Pop(a) == a[Len(a)]

(***************************************************************************)
(* Page detector                                                           *)
(***************************************************************************)

slash == "/"
kwAttractions == <<"a","t","t","r","a","c","t","i","o","n","s">>
kwBeaches     == <<"b","e","a","c","h","e","s">>
kwCulture     == <<"c","u","l","t","u","r","e">>
kwPlan        == <<"p","l","a","n">>
kwTeam        == <<"t","e","a","m">>
indexHtml     == <<"i","n","d","e","x",".","h","t","m","l">>
dotHtml       == <<".","h","t","m","l">>

\* path.split('/').pop() || 'index.html'
Filename(p) ==
    LET last == Pop(Split(p, slash))
    IN  IF last = << >> THEN indexHtml ELSE last

GetCurrentPageSwapped(p) ==
    LET filename == Filename(p)
    IN  IF Includes(filename, kwPlan) THEN "plan"
        ELSE IF Includes(filename, kwAttractions) THEN "attractions"
        ELSE IF Includes(filename, kwBeaches) THEN "beaches"
        ELSE IF Includes(filename, kwCulture) THEN "culture"
        ELSE IF Includes(filename, kwTeam) THEN "team"
        ELSE "home"

\* PageDetector.getCurrentPage
GetCurrentPage(p) ==
    LET filename == Filename(p)
    IN  IF Includes(filename, kwAttractions) THEN "attractions"
        ELSE IF Includes(filename, kwBeaches) THEN "beaches"
        ELSE IF Includes(filename, kwCulture) THEN "culture"
        ELSE IF Includes(filename, kwPlan) THEN "plan"
        ELSE IF Includes(filename, kwTeam) THEN "team"
        ELSE "home"

(***************************************************************************)
(* The parts of the page a behaviour does not exercise stay as they are.   *)
(***************************************************************************)

PageIdle ==
    /\ path = << slash >>
    /\ loaded = FALSE
    /\ currentPage = "none"
    /\ initLog = << >>

NavIdle ==
    /\ ariaExpanded = "absent"
    /\ menuActive = FALSE
    /\ navFocus = "other"
    /\ hasFirstLink = FALSE
    /\ innerWidth = 0
    /\ resizeTimer = FALSE
    /\ navTrace = << >>

LazyIdle ==
    /\ ioAvailable = TRUE
    /\ lazyInitDone = FALSE
    /\ observed = {}
    /\ imgLoaded = {}
    /\ inViewport = {}

AttrIdle ==
    /\ cards = << >>
    /\ searchValue = << >>
    /\ searchTimer = FALSE
    /\ cardDisplay = << >>
    /\ announcer = << >>
    /\ activeTabs = {}
    /\ lastAttr = "none"
    /\ lastTab = "none"

PlanIdle ==
    /\ selectedInterests = << >>
    /\ activeTags = {}
    /\ btnText = "Create Itinerary"
    /\ btnDisabled = FALSE
    /\ submitTimers = << >>
    /\ notifications = << >>
    /\ tagInterest = << >>
    /\ planLast = [ev |-> "none"]

ClockIdle ==
    /\ nowUTC = 0
    /\ tzOffset = 0

ValIdle ==
    /\ emailArg = << >>
    /\ emailResult = "none"
    /\ checkinArg = 0
    /\ checkoutArg = 0
    /\ dateResult = "none"

ObsIdle ==
    /\ tracked = 0
    /\ tagTrace = << >>
    /\ submitFacts = {}

ApiIdle ==
    /\ apiCall = [op |-> "none"]
    /\ apiFetch = [kind |-> "pending"]
    /\ apiResult = [kind |-> "none"]
    /\ apiLog = 0

ElemIdle ==
    /\ present = {}
    /\ registered = {}
    /\ thrown = "none"

BeachIdle ==
    /\ beaches = << >>
    /\ beachDisplay = << >>
    /\ beachAnnouncer = << >>
    /\ lastRegion = "none"
    /\ beachScrolls = "top"

CultIdle ==
    /\ itemKind = << >>
    /\ cultInitDone = FALSE
    /\ cultObserved = {}
    /\ cultPending = {}
    /\ itemStyle = << >>
    /\ cultViewport = {}
    /\ scheduled = << >>

TopIdle ==
    /\ pageYOffset = 0
    /\ topVisible = FALSE
    /\ inThrottle = FALSE
    /\ handledAt = 0 - 1

RestIdle == ApiIdle /\ ElemIdle /\ BeachIdle /\ CultIdle /\ TopIdle

(***************************************************************************)
(* DOMContentLoaded: shared features, then the page-specific module        *)
(***************************************************************************)

\* bound: a pathname has at most MaxSegs segments
MaxSegs == 2

Segments ==
    { << >>,
      indexHtml,
      kwAttractions \o dotHtml,
      kwBeaches \o dotHtml,
      kwCulture \o dotHtml,
      kwPlan \o dotHtml,
      kwTeam \o dotHtml,
      kwPlan \o <<"-">> \o kwAttractions,
      kwTeam \o kwCulture,
      <<"a","t","t","r","a","c","t","i","o","n">>,
      <<"a","b","o","u","t">> }

\* "/" seg1 "/" seg2 ... for every sequence of 1..MaxSegs segments
RECURSIVE JoinPath(_)
JoinPath(segs) ==
    IF segs = << >> THEN << >>
    ELSE << slash >> \o Head(segs) \o JoinPath(Tail(segs))

Paths ==
    { JoinPath(segs) : segs \in UNION { [1..n -> Segments] : n \in 1..MaxSegs } }

SharedInits ==
    << "initMobileNav", "initBackToTop", "initSmoothScroll",
       "initLazyLoading", "enhanceAccessibility", "logPerformance" >>

PageInitsFallThrough(page) ==
    CASE page = "attractions" -> << "AttractionsPage", "BeachesPage" >>
      [] page = "beaches"     -> << "BeachesPage" >>
      [] page = "culture"     -> << "CulturePage" >>
      [] page = "plan"        -> << "PlanTripPage" >>
      [] page = "home"        -> << "HomePage" >>
      [] OTHER                -> << >>

\* the switch of the handler: the init() calls it makes for a page kind
PageInits(page) ==
    CASE page = "attractions" -> << "AttractionsPage" >>
      [] page = "beaches"     -> << "BeachesPage" >>
      [] page = "culture"     -> << "CulturePage" >>
      [] page = "plan"        -> << "PlanTripPage" >>
      [] page = "home"        -> << "HomePage" >>
      [] OTHER                -> << >>

DOMContentLoaded ==
    /\ ~loaded
    /\ loaded' = TRUE
    /\ currentPage' = GetCurrentPage(path)
    /\ initLog' = SharedInits \o PageInits(GetCurrentPage(path))
    /\ UNCHANGED <<path, navVars, lazyVars, attrVars, planVars, clockVars,
                   valVars, obsVars, restVars>>

\* leaving the page for another path of the site: a fresh document
Navigate ==
    /\ loaded
    /\ \E p \in Paths : path' = p
    /\ loaded' = FALSE
    /\ currentPage' = "none"
    /\ initLog' = << >>
    /\ UNCHANGED <<navVars, lazyVars, attrVars, planVars, clockVars, valVars,
                   obsVars, restVars>>

InitPage ==
    /\ path \in Paths
    /\ loaded = FALSE
    /\ currentPage = "none"
    /\ initLog = << >>
    /\ NavIdle /\ LazyIdle /\ AttrIdle /\ PlanIdle /\ ClockIdle /\ ValIdle
    /\ ObsIdle /\ RestIdle

NextPage == DOMContentLoaded \/ Navigate

SpecPage == InitPage /\ [][NextPage]_vars

PageKinds == {"attractions", "beaches", "culture", "plan", "team", "home"}

Keywords == << kwAttractions, kwBeaches, kwCulture, kwPlan, kwTeam >>
KeywordKind == << "attractions", "beaches", "culture", "plan", "team" >>

\* positions of the slashes of a path
SlashPositions(p) == { i \in 1..Len(p) : p[i] = slash }

\* the text after the last slash (the whole path when it has none)
AfterLastSlash(p) ==
    LET k == IF SlashPositions(p) = {} THEN 0
             ELSE CHOOSE i \in SlashPositions(p) :
                      \A j \in SlashPositions(p) : j <= i
    IN  SubSeq(p, k + 1, Len(p))

FilenamePortion(p) ==
    IF AfterLastSlash(p) = << >> THEN indexHtml ELSE AfterLastSlash(p)

\* the keywords occurring in the filename portion, as indexes of Keywords
Hits(p) == { k \in 1..Len(Keywords) : Includes(FilenamePortion(p), Keywords[k]) }

\* C1: getCurrentPage looks only at the text after the last '/' (index.html
\* when that text is empty); it returns the first of attractions, beaches,
\* culture, plan, team that occurs in it, 'home' when none does, and so
\* always one of the six page kinds.
C1_PageDetector ==
    loaded =>
        /\ currentPage \in PageKinds
        /\ Hits(path) = {} => currentPage = "home"
        /\ Hits(path) # {} =>
               \E k \in Hits(path) :
                   /\ \A j \in Hits(path) : k <= j
                   /\ currentPage = KeywordKind[k]

\* a path whose filename holds two keywords and whose directory holds a third
C1_Witness ==
    /\ loaded
    /\ Cardinality(Hits(path)) >= 2
    /\ currentPage = "attractions"
    /\ Includes(path, kwTeam \o dotHtml \o << slash >>)

\* a path with a keyword only in a directory name is the home page
C1_WitnessHome ==
    /\ loaded
    /\ Hits(path) = {}
    /\ Includes(path, kwBeaches)
    /\ currentPage = "home"

PageModuleOf ==
    [ attractions |-> "AttractionsPage", beaches |-> "BeachesPage",
      culture |-> "CulturePage", plan |-> "PlanTripPage", home |-> "HomePage" ]

\* C2 as stated: for every page kind, the six shared features are initialised
\* first and then exactly one page-specific module's init() is run.
C2_ExactlyOneModule ==
    loaded =>
        /\ Len(initLog) = Len(SharedInits) + 1
        /\ SubSeq(initLog, 1, Len(SharedInits)) = SharedInits

\* C2 amended: the six shared features are initialised first, in their fixed
\* order; then for attractions, beaches, culture, plan and home exactly the
\* module of that page is initialised, and for team none is.
C2_SharedThenPageModule ==
    loaded =>
        /\ Len(initLog) >= Len(SharedInits)
        /\ SubSeq(initLog, 1, Len(SharedInits)) = SharedInits
        /\ currentPage = "team" => Len(initLog) = Len(SharedInits)
        /\ currentPage # "team" =>
               /\ Len(initLog) = Len(SharedInits) + 1
               /\ initLog[Len(initLog)] = PageModuleOf[currentPage]

C2_Witness ==
    /\ loaded
    /\ currentPage = "team"
    /\ initLog = SharedInits

C2_WitnessPlan ==
    /\ loaded
    /\ currentPage = "plan"
    /\ Len(initLog) = 7

(***************************************************************************)
(* Mobile navigation (SharedFeatures.initMobileNav)                        *)
(***************************************************************************)

\* the width above which a resize closes the menu
Breakpoint == 768

Widths == { Breakpoint - 1, Breakpoint, Breakpoint + 1 }

ClickTargets == { "toggle", "menu", "outside" }
Keys == { "Escape", "Enter" }

NextAriaStuck(aria) == "true"

\* menuToggle.setAttribute('aria-expanded', !isExpanded)
NextAria(aria) == IF aria = "true" THEN "false" ELSE "true"

ToggleActiveAdd(active) == TRUE

\* navMenu.classList.toggle('active')
ToggleActive(active) == ~active

IsOutsideToggleOnly(target) == target # "toggle"

\* !menuToggle.contains(e.target) && !navMenu.contains(e.target)
IsOutside(target) == target # "toggle" /\ target # "menu"

\* the event and the state it started from, kept for the last two events
Traced(ev) ==
    LET t == Append(navTrace, [ev |-> ev, aria |-> ariaExpanded, active |-> menuActive])
    IN  IF Len(t) > 2 THEN Tail(t) ELSE t

\* a click: the toggle's listener when the target is inside the toggle,
\* then the document's listener
Click(target) ==
    LET isExpanded == ariaExpanded = "true"
        onToggle == target = "toggle"
        aria1   == IF onToggle THEN NextAria(ariaExpanded) ELSE ariaExpanded
        active1 == IF onToggle THEN ToggleActive(menuActive) ELSE menuActive
        focus1  == IF onToggle /\ ~isExpanded /\ hasFirstLink
                   THEN "firstLink" ELSE navFocus
    IN  /\ ariaExpanded' = IF IsOutside(target) THEN "false" ELSE aria1
        /\ menuActive' = IF IsOutside(target) THEN FALSE ELSE active1
        /\ navFocus' = focus1
        /\ navTrace' = Traced(target)
        /\ UNCHANGED <<hasFirstLink, innerWidth, resizeTimer>>
        /\ UNCHANGED <<pageVars, lazyVars, attrVars, planVars, clockVars,
                       valVars, obsVars, restVars>>

\* a keydown on the document
KeyDown(key) ==
    /\ IF key = "Escape" /\ menuActive
       THEN /\ ariaExpanded' = "false"
            /\ menuActive' = FALSE
            /\ navFocus' = "toggle"
       ELSE UNCHANGED <<ariaExpanded, menuActive, navFocus>>
    /\ navTrace' = Traced(key)
    /\ UNCHANGED <<hasFirstLink, innerWidth, resizeTimer>>
    /\ UNCHANGED <<pageVars, lazyVars, attrVars, planVars, clockVars,
                   valVars, obsVars, restVars>>

\* a resize event: the debounced listener restarts its 250 ms timeout
Resize(w) ==
    /\ innerWidth' = w
    /\ resizeTimer' = TRUE
    /\ navTrace' = Traced("resize")
    /\ UNCHANGED <<ariaExpanded, menuActive, navFocus, hasFirstLink>>
    /\ UNCHANGED <<pageVars, lazyVars, attrVars, planVars, clockVars,
                   valVars, obsVars, restVars>>

\* the debounce timeout expires and the resize callback runs
ResizeFire ==
    /\ resizeTimer
    /\ resizeTimer' = FALSE
    /\ IF innerWidth > Breakpoint
       THEN /\ ariaExpanded' = "false"
            /\ menuActive' = FALSE
       ELSE UNCHANGED <<ariaExpanded, menuActive>>
    /\ navTrace' = Traced("resizeFire")
    /\ UNCHANGED <<navFocus, hasFirstLink, innerWidth>>
    /\ UNCHANGED <<pageVars, lazyVars, attrVars, planVars, clockVars,
                   valVars, obsVars, restVars>>

\* a page whose menu is closed: no 'active' class, aria-expanded 'false' or
\* not set in the markup
InitNav ==
    /\ ariaExpanded \in { "absent", "false" }
    /\ menuActive = FALSE
    /\ navFocus = "other"
    /\ hasFirstLink \in BOOLEAN
    /\ innerWidth \in Widths
    /\ resizeTimer = FALSE
    /\ navTrace = << >>
    /\ PageIdle /\ LazyIdle /\ AttrIdle /\ PlanIdle /\ ClockIdle /\ ValIdle
    /\ ObsIdle /\ RestIdle

NextNav ==
    \/ \E t \in ClickTargets : Click(t)
    \/ \E k \in Keys : KeyDown(k)
    \/ \E w \in Widths : Resize(w)
    \/ ResizeFire

SpecNav == InitNav /\ [][NextNav]_vars

LastEv == navTrace[Len(navTrace)]

TwoToggleClicks ==
    /\ Len(navTrace) = 2
    /\ navTrace[1].ev = "toggle"
    /\ navTrace[2].ev = "toggle"

\* C8 as stated: two consecutive clicks on the menu toggle return
\* aria-expanded to the value it had before the first click and leave the
\* menu hidden.
C8_TwoClicksHidden ==
    TwoToggleClicks =>
        /\ ariaExpanded = navTrace[1].aria
        /\ ~menuActive

\* C8 amended: two consecutive clicks on the menu toggle return the menu's
\* 'active' class to the state it had before the first click (a hidden menu
\* is hidden again, an open menu is open again) and return aria-expanded to
\* its value before the first click when that value was 'true' or 'false';
\* an aria-expanded that was not set ends as 'false'.
C8_TwoClicksRestore ==
    TwoToggleClicks =>
        /\ menuActive = navTrace[1].active
        /\ navTrace[1].aria \in { "true", "false" } => ariaExpanded = navTrace[1].aria
        /\ navTrace[1].aria = "absent" => ariaExpanded = "false"

C8_Witness ==
    /\ TwoToggleClicks
    /\ navTrace[1].aria = "false"
    /\ ~navTrace[1].active
    /\ ariaExpanded = "false"
    /\ ~menuActive

\* C9: when the menu is open, an Escape keypress or a click outside both the
\* toggle and the menu closes it (aria-expanded 'false', no 'active' class);
\* a click inside the menu changes neither, and a click inside the toggle
\* toggles both instead of closing.
C9_Dismissal ==
    navTrace # << >> =>
        /\ (LastEv.active /\ LastEv.ev \in { "Escape", "outside" }) =>
               (ariaExpanded = "false" /\ ~menuActive)
        /\ LastEv.ev = "menu" =>
               (ariaExpanded = LastEv.aria /\ menuActive = LastEv.active)
        /\ LastEv.ev = "toggle" =>
               /\ menuActive = ~LastEv.active
               /\ LastEv.aria # "true" => ariaExpanded = "true"

C9_Witness ==
    /\ Len(navTrace) = 2
    /\ navTrace[1].ev = "menu"
    /\ navTrace[1].active
    /\ navTrace[2].ev = "outside"
    /\ navTrace[2].active
    /\ ariaExpanded = "false"
    /\ ~menuActive

C9_WitnessEscape ==
    /\ navTrace # << >>
    /\ LastEv.ev = "Escape"
    /\ LastEv.active
    /\ ~menuActive
    /\ navFocus = "toggle"

\* C22: starting from a closed menu, in every state reachable by toggle
\* clicks, Escape keypresses, outside clicks and debounced resizes, the
\* toggle's aria-expanded is 'true' exactly when the navigation menu has
\* the 'active' class.
C22_AriaMatchesActive == (ariaExpanded = "true") <=> menuActive

\* the menu opened by a click on the toggle, after an earlier event
C22_Witness ==
    /\ Len(navTrace) = 2
    /\ LastEv.ev = "toggle"
    /\ ~LastEv.active
    /\ ariaExpanded = "true"
    /\ menuActive

\* an open menu closed by the resize callback above the breakpoint
C22_WitnessResize ==
    /\ navTrace # << >>
    /\ LastEv.ev = "resizeFire"
    /\ LastEv.active
    /\ innerWidth > Breakpoint
    /\ ariaExpanded = "false"
    /\ ~menuActive

(***************************************************************************)
(* Lazy images (SharedFeatures.initLazyLoading)                            *)
(***************************************************************************)

\* bound: the document has NumImages img[loading="lazy"] elements
NumImages == 4

Images == 1..NumImages

\* initLazyLoading: with IntersectionObserver every lazy image is observed;
\* the if has no else branch
LazyInit ==
    /\ ~lazyInitDone
    /\ lazyInitDone' = TRUE
    /\ observed' = IF ioAvailable THEN Images ELSE observed
    /\ UNCHANGED <<ioAvailable, imgLoaded, inViewport>>
    /\ UNCHANGED <<pageVars, navVars, attrVars, planVars, clockVars, valVars,
                   obsVars, restVars>>

\* scrolling changes which images intersect the root
ScrollImages(vp) ==
    /\ vp # inViewport
    /\ inViewport' = vp
    /\ UNCHANGED <<ioAvailable, lazyInitDone, observed, imgLoaded>>
    /\ UNCHANGED <<pageVars, navVars, attrVars, planVars, clockVars, valVars,
                   obsVars, restVars>>

\* the observer's callback for a batch of entries about observed images;
\* entry.isIntersecting is whether the image intersects the root
ObserverCallback(entries) ==
    /\ lazyInitDone
    /\ ioAvailable
    /\ entries # {}
    /\ entries \subseteq observed
    /\ LET intersecting == { img \in entries : img \in inViewport }
       IN  /\ imgLoaded' = imgLoaded \cup intersecting
           /\ observed' = observed \ intersecting
    /\ UNCHANGED <<ioAvailable, lazyInitDone, inViewport>>
    /\ UNCHANGED <<pageVars, navVars, attrVars, planVars, clockVars, valVars,
                   obsVars, restVars>>

InitLazy ==
    /\ ioAvailable \in BOOLEAN
    /\ lazyInitDone = FALSE
    /\ observed = {}
    /\ imgLoaded = {}
    /\ inViewport \in SUBSET Images
    /\ PageIdle /\ NavIdle /\ AttrIdle /\ PlanIdle /\ ClockIdle /\ ValIdle
    /\ ObsIdle /\ RestIdle

NextLazy ==
    \/ LazyInit
    \/ \E vp \in SUBSET Images : ScrollImages(vp)
    \/ \E entries \in SUBSET Images : ObserverCallback(entries)

SpecLazy == InitLazy /\ [][NextLazy]_vars

\* C10: with IntersectionObserver a lazy image is marked loaded when it is
\* reported entering the viewport (and is then no longer observed); without
\* IntersectionObserver every lazy image gets the 'loaded' class during
\* initialisation.
C10_LazyFallback ==
    lazyInitDone =>
        /\ ioAvailable => imgLoaded = Images \ observed
        /\ ~ioAvailable => imgLoaded = Images

(***************************************************************************)
(* PlanTripPage.validateEmail                                              *)
(***************************************************************************)

\* characters matched by \s and stripped by trim()
IsSpace(c) == c \in { " ", "\t" }

RECURSIVE TrimStart(_)
TrimStart(s) ==
    IF s # << >> /\ IsSpace(Head(s)) THEN TrimStart(Tail(s)) ELSE s

RECURSIVE TrimEnd(_)
TrimEnd(s) ==
    IF s # << >> /\ IsSpace(s[Len(s)]) THEN TrimEnd(SubSeq(s, 1, Len(s) - 1)) ELSE s

\* String.prototype.trim
Trim(s) == TrimEnd(TrimStart(s))

\* the character class [^\s@]
NotSpaceOrAt(c) == ~IsSpace(c) /\ c # "@"

\* s[from..to] is a match of [^\s@]+
ClassPlus(s, from, to) ==
    /\ from <= to
    /\ \A i \in from..to : NotSpaceOrAt(s[i])

EmailRegexTestNoDot(s) ==
    \E at \in 1..Len(s) :
        /\ s[at] = "@"
        /\ ClassPlus(s, 1, at - 1)
        /\ ClassPlus(s, at + 1, Len(s))

\* /^[^\s@]+@[^\s@]+\.[^\s@]+$/.test(s)
EmailRegexTest(s) ==
    \E at \in 1..Len(s) : \E dot \in 1..Len(s) :
        /\ s[at] = "@"
        /\ s[dot] = "."
        /\ ClassPlus(s, 1, at - 1)
        /\ ClassPlus(s, at + 1, dot - 1)
        /\ ClassPlus(s, dot + 1, Len(s))

\* validateEmail: "missing" and "invalid" stand for its two messages
ValidateEmail(email) ==
    IF email = << >> \/ Trim(email) = << >> THEN "missing"
    ELSE IF ~EmailRegexTest(email) THEN "invalid"
    ELSE "valid"

\* bound: the enumerated e-mail strings have at most MaxEmailLen characters
MaxEmailLen == 5

EmailAlphabet == { "a", "@", ".", " " }

notAnEmail == <<"n","o","t","-","a","n","-","e","m","a","i","l">>
goodEmail  == <<"a","@","b",".","c","o">>

Emails ==
    UNION { [1..n -> EmailAlphabet] : n \in 0..MaxEmailLen }
        \cup { notAnEmail, goodEmail, <<"\t">>, <<"a","@","b",".","c","\t">> }

ValidateEmailCall ==
    /\ emailResult = "none"
    /\ emailResult' = ValidateEmail(emailArg)
    /\ UNCHANGED <<emailArg, checkinArg, checkoutArg, dateResult>>
    /\ UNCHANGED <<pageVars, navVars, lazyVars, attrVars, planVars,
                   clockVars, obsVars, restVars>>

\* the next call, on another string
NextEmail(e) ==
    /\ emailResult # "none"
    /\ emailArg' = e
    /\ emailResult' = "none"
    /\ UNCHANGED <<checkinArg, checkoutArg, dateResult>>
    /\ UNCHANGED <<pageVars, navVars, lazyVars, attrVars, planVars,
                   clockVars, obsVars, restVars>>

InitEmail ==
    /\ emailArg \in Emails
    /\ emailResult = "none"
    /\ checkinArg = 0
    /\ checkoutArg = 0
    /\ dateResult = "none"
    /\ PageIdle /\ NavIdle /\ LazyIdle /\ AttrIdle /\ PlanIdle /\ ClockIdle
    /\ ObsIdle /\ RestIdle

NextEmailSpec ==
    \/ ValidateEmailCall
    \/ \E e \in { notAnEmail, goodEmail } : NextEmail(e)

SpecEmail == InitEmail /\ [][NextEmailSpec]_vars

AtPositions(s) == { i \in 1..Len(s) : s[i] = "@" }

\* the part of s after its only '@'
DomainPart(s) ==
    LET at == CHOOSE i \in AtPositions(s) : TRUE
    IN  SubSeq(s, at + 1, Len(s))

LocalPart(s) ==
    LET at == CHOOSE i \in AtPositions(s) : TRUE
    IN  SubSeq(s, 1, at - 1)

WellFormedEmail(s) ==
    /\ \A i \in 1..Len(s) : ~IsSpace(s[i])
    /\ Cardinality(AtPositions(s)) = 1
    /\ LocalPart(s) # << >>
    /\ \E k \in 2..(Len(DomainPart(s)) - 1) : DomainPart(s)[k] = "."

\* C6: validateEmail returns valid exactly for the strings without
\* whitespace that contain exactly one '@' with a non-empty part before it
\* and whose part after the '@' contains a '.' that is neither its first nor
\* its last character; 'not-an-email' is rejected and 'a@b.co' is accepted.
C6_EmailValidation ==
    emailResult # "none" =>
        /\ emailResult = "valid" <=> WellFormedEmail(emailArg)
        /\ emailArg = notAnEmail => emailResult # "valid"
        /\ emailArg = goodEmail => emailResult = "valid"

\* an accepted address whose domain part starts with a dot and has a second
\* dot inside
C6_Witness ==
    /\ emailResult = "valid"
    /\ DomainPart(emailArg)[1] = "."
    /\ Len(emailArg) = MaxEmailLen

C6_WitnessRejected ==
    /\ emailResult = "invalid"
    /\ emailArg = notAnEmail

(***************************************************************************)
(* PlanTripPage.validateDates                                              *)
(***************************************************************************)

\* half hours of a day: Date values are counted in half hours, so that
\* offsets such as +05:30 are whole numbers
TicksPerDay == 48

\* the value of an Invalid Date
NaN == 0 - 1

\* the value of formData.get() for a date field left empty
NoDate == 0 - 1

\* new Date('YYYY-MM-DD'): a date-only string is midnight UTC of that day;
\* the empty string gives an Invalid Date. A calendar date is the number of
\* its day since the epoch.
ParseDate(d) == IF d = NoDate THEN NaN ELSE d * TicksPerDay

\* new Date(); setHours(0, 0, 0, 0): the instant of the last local midnight
LocalMidnight(now, off) == ((now + off) \div TicksPerDay) * TicksPerDay - off

\* a < b on Date values: false when either is an Invalid Date
DateLt(a, b) == a # NaN /\ b # NaN /\ a < b

\* a <= b on Date values
DateLe(a, b) == a # NaN /\ b # NaN /\ a <= b

\* validateDates: "checkin" and "checkout" stand for its two messages
ValidateDates(checkinDate, checkoutDate, now, off) ==
    LET checkin == ParseDate(checkinDate)
        checkout == ParseDate(checkoutDate)
        today == LocalMidnight(now, off)
    IN  IF DateLt(checkin, today) THEN "checkin"
        ELSE IF DateLe(checkout, checkin) THEN "checkout"
        ELSE "valid"

\* bound: the calendar dates are the days 0..MaxDay
MaxDay == 4

Days == 0..MaxDay

\* the current instant: every third hour of the second and third UTC day,
\* at half past
Instants == { t \in TicksPerDay..(3 * TicksPerDay - 1) : t % 6 = 1 }

\* UTC-12:00 .. UTC+14:00, India's +05:30 among them
Offsets == { -24, -20, -10, -7, 0, 2, 11, 20, 28 }

\* the local calendar date of an instant
LocalDate(now, off) == (now + off) \div TicksPerDay

ValidateDatesCall ==
    /\ dateResult = "none"
    /\ dateResult' = ValidateDates(checkinArg, checkoutArg, nowUTC, tzOffset)
    /\ UNCHANGED <<emailArg, emailResult, checkinArg, checkoutArg>>
    /\ UNCHANGED <<pageVars, navVars, lazyVars, attrVars, planVars,
                   clockVars, obsVars, restVars>>

\* the next call, on other dates
NextDates(ci, co) ==
    /\ dateResult # "none"
    /\ checkinArg' = ci
    /\ checkoutArg' = co
    /\ dateResult' = "none"
    /\ UNCHANGED <<emailArg, emailResult>>
    /\ UNCHANGED <<pageVars, navVars, lazyVars, attrVars, planVars,
                   clockVars, obsVars, restVars>>

InitDates ==
    /\ checkinArg \in Days
    /\ checkoutArg \in Days
    /\ dateResult = "none"
    /\ nowUTC \in Instants
    /\ tzOffset \in Offsets
    /\ emailArg = << >>
    /\ emailResult = "none"
    /\ PageIdle /\ NavIdle /\ LazyIdle /\ AttrIdle /\ PlanIdle
    /\ ObsIdle /\ RestIdle

NextDatesSpec ==
    \/ ValidateDatesCall
    \/ \E ci \in Days : NextDates(ci, ci + 1)

SpecDates == InitDates /\ [][NextDatesSpec]_vars

\* C5: for every time of day and every UTC offset, validateDates rejects a
\* check-in date before today's local date, rejects a check-out date equal
\* to or before the check-in date, and accepts check-in today with check-out
\* tomorrow.
C5_DateValidation ==
    dateResult # "none" =>
        LET today == LocalDate(nowUTC, tzOffset)
        IN  /\ checkinArg < today => dateResult # "valid"
            /\ checkoutArg <= checkinArg => dateResult # "valid"
            /\ (checkinArg = today /\ checkoutArg = today + 1) => dateResult = "valid"

(***************************************************************************)
(* Trip planning form (PlanTripPage.initInterestTags, initFormSubmission,  *)
(* Utils.showNotification)                                                 *)
(***************************************************************************)

\* bound: the page has NumTags interest tags
NumTags == 2

\* bound: at most MaxPending simulated submissions are in flight
MaxPending == 2

\* bound: at most MaxNotes notifications are on screen or due
MaxNotes == 2

Tags == 1..NumTags

\* the data-interest values of the tags, in document order
InterestNames == << "beaches", "culture", "food", "nightlife", "heritage" >>

creatingText == "Creating Itinerary..."

\* the text of the submit button as the markup has it, before any submission
initialText == "Create Itinerary"

Range(seq) == { seq[i] : i \in 1..Len(seq) }

ToggleInterestPushOnly(sel, interest) == Append(sel, interest)

\* lines 579-585: includes() then filter() or push()
ToggleInterest(sel, interest) ==
    IF interest \in Range(sel)
    THEN SelectSeq(sel, LAMBDA i : i # interest)
    ELSE Append(sel, interest)

\* the click listener of an interest tag, observers aside
TagClickStep(t) ==
    LET interest == tagInterest[t]
    IN  /\ activeTags' = IF t \in activeTags THEN activeTags \ { t }
                         ELSE activeTags \cup { t }
        /\ selectedInterests' = ToggleInterest(selectedInterests, interest)
        /\ planLast' = [ev |-> "tag"]
        /\ UNCHANGED <<btnText, btnDisabled, submitTimers, notifications,
                       tagInterest>>
        /\ UNCHANGED <<pageVars, navVars, lazyVars, attrVars, clockVars,
                       valVars, restVars>>

\* the click listener of an interest tag
TagClick(t) == TagClickStep(t) /\ UNCHANGED obsVars

InterestsCheckSkipped(sel) == TRUE

\* the check of line 690 passes: this.selectedInterests.length === 0 is false
InterestsCheck(sel) == Len(sel) # 0

\* line 684: if (!travelers)
TravelersCheck(travelers) == travelers # ""

SubmitOutcomeDatesFirst(f, sel, now, off) ==
    LET emailValidation == ValidateEmail(f.email)
        dateValidation == ValidateDates(f.checkin, f.checkout, now, off)
    IN  IF dateValidation # "valid" THEN dateValidation
        ELSE IF emailValidation # "valid"
        THEN IF emailValidation = "missing" THEN "emailMissing" ELSE "emailInvalid"
        ELSE IF ~TravelersCheck(f.travelers) THEN "travelers"
        ELSE IF ~InterestsCheck(sel) THEN "interests"
        ELSE "accepted"

\* the validation sequence of the submit listener: the first check that
\* fails names the outcome
SubmitOutcome(f, sel, now, off) ==
    LET emailValidation == ValidateEmail(f.email)
        dateValidation == ValidateDates(f.checkin, f.checkout, now, off)
    IN  IF emailValidation # "valid"
        THEN IF emailValidation = "missing" THEN "emailMissing" ELSE "emailInvalid"
        ELSE IF dateValidation # "valid" THEN dateValidation
        ELSE IF ~TravelersCheck(f.travelers) THEN "travelers"
        ELSE IF ~InterestsCheck(sel) THEN "interests"
        ELSE "accepted"

\* Utils.showNotification: the new element is appended to the body
ShowNotification(notes, type, msg) ==
    Append(notes, [type |-> type, msg |-> msg, leaving |-> FALSE])

\* a submit event of the trip form with the field values f, observers
\* aside
SubmitStep(f) ==
    LET outcome == SubmitOutcome(f, selectedInterests, nowUTC, tzOffset)
    IN  /\ Len(notifications) + Len(submitTimers) < MaxNotes
        /\ Len(submitTimers) < MaxPending
        /\ planLast' = [ev |-> "submit", outcome |-> outcome]
        /\ IF outcome # "accepted"
           THEN /\ notifications' = ShowNotification(notifications, "error", outcome)
                /\ UNCHANGED <<btnText, btnDisabled, submitTimers>>
           ELSE /\ btnText' = creatingText
                /\ btnDisabled' = TRUE
                /\ submitTimers' = Append(submitTimers,
                                          [originalText |-> btnText, email |-> f.email])
                /\ UNCHANGED notifications
        /\ UNCHANGED <<selectedInterests, activeTags, tagInterest>>
        /\ UNCHANGED <<pageVars, navVars, lazyVars, attrVars, clockVars,
                       valVars, restVars>>

\* a submit event of the trip form with the field values f
Submit(f) == SubmitStep(f) /\ UNCHANGED obsVars

\* the 1500 ms timeout of the oldest accepted submission expires
\* (observers aside)
SubmitTimerFireStep ==
    /\ submitTimers # << >>
    /\ LET t == Head(submitTimers)
       IN  /\ notifications' = ShowNotification(notifications, "success", t.email)
           /\ btnText' = t.originalText
           /\ btnDisabled' = FALSE
    /\ submitTimers' = Tail(submitTimers)
    /\ planLast' = [ev |-> "submitTimer"]
    /\ UNCHANGED <<selectedInterests, activeTags, tagInterest>>
    /\ UNCHANGED <<pageVars, navVars, lazyVars, attrVars, clockVars, valVars,
                   restVars>>

SubmitTimerFire == SubmitTimerFireStep /\ UNCHANGED obsVars

\* the 4000 ms timeout of the oldest notification still shown expires: it
\* starts sliding out (observers aside)
NotificationSlideOutStep ==
    /\ \E i \in 1..Len(notifications) :
        /\ ~notifications[i].leaving
        /\ \A j \in 1..(i - 1) : notifications[j].leaving
        /\ notifications' = [notifications EXCEPT ![i].leaving = TRUE]
    /\ planLast' = [ev |-> "slideOut"]
    /\ UNCHANGED <<selectedInterests, activeTags, btnText, btnDisabled,
                   submitTimers, tagInterest>>
    /\ UNCHANGED <<pageVars, navVars, lazyVars, attrVars, clockVars, valVars,
                   restVars>>

NotificationSlideOut == NotificationSlideOutStep /\ UNCHANGED obsVars

RemoveNotificationAll(notes) == << >>

\* line 67: notification.remove() takes the one element out of the body
RemoveNotification(notes) == Tail(notes)

\* the 300 ms timeout of the oldest sliding notification expires:
\* notification.remove() (observers aside)
NotificationRemoveStep ==
    /\ notifications # << >>
    /\ Head(notifications).leaving
    /\ notifications' = RemoveNotification(notifications)
    /\ planLast' = [ev |-> "remove"]
    /\ UNCHANGED <<selectedInterests, activeTags, btnText, btnDisabled,
                   submitTimers, tagInterest>>
    /\ UNCHANGED <<pageVars, navVars, lazyVars, attrVars, clockVars, valVars,
                   restVars>>

NotificationRemove == NotificationRemoveStep /\ UNCHANGED obsVars

\* the values a form field can hold
FormEmails == { << >>, notAnEmail, goodEmail }
FormDates == { NoDate, 1, 2, 3 }
FormTravelers == { "", "2" }

Forms ==
    [ email : FormEmails, checkin : FormDates, checkout : FormDates,
      travelers : FormTravelers ]

\* the plan page after PlanTripPage.init(): nothing selected, the button
\* as in the markup, every tag with an interest of its own
InitForm ==
    /\ selectedInterests = << >>
    /\ activeTags = {}
    /\ btnText = initialText
    /\ btnDisabled = FALSE
    /\ submitTimers = << >>
    /\ notifications = << >>
    /\ tagInterest = [ t \in Tags |-> InterestNames[((t - 1) % Len(InterestNames)) + 1] ]
    /\ planLast = [ev |-> "none"]
    /\ nowUTC = 2 * TicksPerDay + 25
    /\ tzOffset = 11
    /\ PageIdle /\ NavIdle /\ LazyIdle /\ AttrIdle /\ ValIdle
    /\ ObsIdle /\ RestIdle

NextForm ==
    \/ \E t \in Tags : TagClick(t)
    \/ \E f \in Forms : Submit(f)
    \/ SubmitTimerFire
    \/ NotificationSlideOut
    \/ NotificationRemove

SpecForm == InitForm /\ [][NextForm]_vars

SuccessNotes(notes) == { i \in 1..Len(notes) : notes[i].type = "success" }

\* C7: a submit event while the selected-interest set is empty is rejected
\* whatever the field values: it does not disable the submit button or
\* change its text, it starts no simulated submission, and it produces no
\* success notification (only an error notification is added).
C7_NoInterestsRejected ==
    [][ (planLast'.ev = "submit" /\ selectedInterests = << >>) =>
            /\ btnDisabled' = btnDisabled
            /\ btnText' = btnText
            /\ submitTimers' = submitTimers
            /\ planLast'.outcome # "accepted"
            /\ Len(notifications') = Len(notifications) + 1
            /\ notifications'[Len(notifications')].type = "error"
      ]_vars

\* a submit that passed the e-mail, date and traveler checks and was rejected
\* for its empty interest set, the button staying enabled
C7_Witness ==
    /\ planLast = [ev |-> "submit", outcome |-> "interests"]
    /\ selectedInterests = << >>
    /\ ~btnDisabled
    /\ submitTimers = << >>
    /\ notifications # << >>
    /\ notifications[Len(notifications)].msg = "interests"

\* C13: a submission that passes every validation reports success exactly
\* once and only after its 1500 ms delay: the accepting submit step adds no
\* success notification, the expiry of its timer adds exactly one (for its
\* e-mail), and while a delay timer is pending the submit button is
\* disabled and shows 'Creating Itinerary...'.
C13_SuccessAfterDelay ==
    /\ [](submitTimers # << >> => (btnDisabled /\ btnText = creatingText))
    /\ [][ (planLast'.ev = "submit" =>
               Cardinality(SuccessNotes(notifications')) =
                   Cardinality(SuccessNotes(notifications)))
           /\
           (planLast'.ev = "submitTimer" =>
               (submitTimers # << >> /\
                notifications' = ShowNotification(notifications, "success",
                                                  Head(submitTimers).email)))
         ]_vars

\* C14: overlapping submissions need no coordination: whenever no delay
\* timer is pending the submit button is enabled and shows the text it had
\* before the first submission, every accepted submission starts exactly
\* one timer and every timer expiry produces exactly one success
\* notification.
C14_OverlappingSubmissions ==
    /\ [](submitTimers = << >> => (~btnDisabled /\ btnText = initialText))
    /\ [][ ((planLast'.ev = "submit" /\ planLast'.outcome = "accepted") =>
               Len(submitTimers') = Len(submitTimers) + 1)
           /\
           (planLast'.ev = "submitTimer" =>
               (Len(submitTimers') = Len(submitTimers) - 1 /\
                Cardinality(SuccessNotes(notifications')) =
                    Cardinality(SuccessNotes(notifications)) + 1))
         ]_vars

(***************************************************************************)
(* Attractions page (AttractionsPage.initSearch, initFilters,              *)
(* applyURLFilter, announceResults)                                        *)
(***************************************************************************)

UpperCase == << "A","B","C","D","E","F","G","H","I","J","K","L","M",
                "N","O","P","Q","R","S","T","U","V","W","X","Y","Z" >>
LowerCase == << "a","b","c","d","e","f","g","h","i","j","k","l","m",
                "n","o","p","q","r","s","t","u","v","w","x","y","z" >>

ToLowerChar(c) ==
    IF \E i \in 1..Len(UpperCase) : UpperCase[i] = c
    THEN LowerCase[CHOOSE i \in 1..Len(UpperCase) : UpperCase[i] = c]
    ELSE c

\* String.prototype.toLowerCase
ToLower(s) == [ i \in 1..Len(s) |-> ToLowerChar(s[i]) ]

\* bound: the page has NumCards attraction cards
NumCards == 2

\* bound: the search input holds at most MaxTermLen characters
MaxTermLen == 2

\* the text of a card's .card-title, .card-description and .card-location
\* (empty also when the element is missing) and its data-category
CardPool ==
    { [ title |-> <<"G","o">>, description |-> <<"o"," ","g">>,
        location |-> << >>, category |-> "churches" ],
      [ title |-> <<"G">>, description |-> << >>,
        location |-> <<"g","o">>, category |-> "forts" ],
      [ title |-> << >>, description |-> << >>,
        location |-> << >>, category |-> "forts" ],
      [ title |-> <<"g","g">>, description |-> <<"G">>,
        location |-> <<"g">>, category |-> "beaches" ] }

SearchAlphabet == { "g", "O", " " }

SearchValues == UNION { [1..n -> SearchAlphabet] : n \in 0..MaxTermLen }

\* the data-category of the .filter-tab buttons
TabCategories == { "all", "churches", "forts" }

\* the ?filter= parameter of the URL, "none" when it is not given
URLFilters == { "none", "churches", "museums" }

\* searchInput.value.toLowerCase().trim()
SearchTerm(value) == Trim(ToLower(value))

MatchesNoLocation(card, term) ==
    \/ Includes(ToLower(card.title), term)
    \/ Includes(ToLower(card.description), term)

\* const matches of searchAttractions
Matches(card, term) ==
    \/ Includes(ToLower(card.title), term)
    \/ Includes(ToLower(card.description), term)
    \/ Includes(ToLower(card.location), term)

\* the branch of searchAttractions that shows the card
SearchShows(card, term) == Matches(card, term) \/ term = << >>

\* the branch of the filter-tab listener that shows the card
FilterShows(card, category) == category = "all" \/ card.category = category

FilterCountAll(cs, category) == Len(cs)

\* visibleCount of the filter-tab listener after its loop
FilterCount(cs, category) ==
    Cardinality({ i \in 1..Len(cs) : FilterShows(cs[i], category) })

\* visibleCount of searchAttractions after its loop
SearchCount(cs, term) ==
    Cardinality({ i \in 1..Len(cs) : SearchShows(cs[i], term) })

\* announceResults: the text 'Showing V of T attractions' is <<V, T>>; the
\* announcer is created when the page has none
AnnounceResults(visible, total) == << visible, total >>

\* an input event: the debounced listener restarts its 300 ms timeout
SearchInput(v) ==
    /\ v # searchValue
    /\ searchValue' = v
    /\ searchTimer' = TRUE
    /\ lastAttr' = "input"
    /\ UNCHANGED <<cards, cardDisplay, announcer, activeTabs, lastTab>>
    /\ UNCHANGED <<pageVars, navVars, lazyVars, planVars, clockVars, valVars,
                   obsVars, restVars>>

AfterLaterStillPending(timer) == timer

\* lines 21-24: once later() has run no timeout of the debounce is pending
AfterLater(timer) == FALSE

\* lines 21-24: the timeout expires and later() runs
Later ==
    /\ searchTimer
    /\ searchTimer' = AfterLater(searchTimer)

\* the debounce timeout expires: searchAttractions runs
SearchAttractions ==
    /\ Later
    /\ LET term == SearchTerm(searchValue)
       IN  /\ cardDisplay' = [ i \in 1..Len(cards) |->
                                 IF SearchShows(cards[i], term) THEN "" ELSE "none" ]
           /\ announcer' = AnnounceResults(SearchCount(cards, term), Len(cards))
    /\ lastAttr' = "search"
    /\ UNCHANGED <<cards, searchValue, activeTabs, lastTab>>
    /\ UNCHANGED <<pageVars, navVars, lazyVars, planVars, clockVars, valVars,
                   obsVars, restVars>>

\* the state of the cards, announcer and tabs after a click on a filter tab
FilterDisplay(cs, category) ==
    [ i \in 1..Len(cs) |-> IF FilterShows(cs[i], category) THEN "" ELSE "none" ]

ActivateTabNoRemove(tabs, category) == tabs \cup { category }

\* lines 371-372: 'active' is removed from every tab and added to the
\* clicked one
ActivateTab(tabs, category) == (tabs \ TabCategories) \cup { category }

\* a click on the filter tab of a category
FilterClick(category) ==
    /\ activeTabs' = ActivateTab(activeTabs, category)
    /\ cardDisplay' = FilterDisplay(cards, category)
    /\ announcer' = AnnounceResults(FilterCount(cards, category), Len(cards))
    /\ lastAttr' = "filter"
    /\ lastTab' = category
    /\ UNCHANGED <<cards, searchValue, searchTimer>>
    /\ UNCHANGED <<pageVars, navVars, lazyVars, planVars, clockVars, valVars,
                   obsVars, restVars>>

\* the attractions page after AttractionsPage.init(): applyURLFilter has
\* clicked the tab the URL names, when there is one
InitAttr ==
    /\ cards \in [1..NumCards -> CardPool]
    /\ searchValue = << >>
    /\ searchTimer = FALSE
    /\ \E f \in URLFilters :
        IF f \in TabCategories
        THEN /\ \E markup \in { {}, { "all" } } :
                    activeTabs = ActivateTab(markup, f)
             /\ cardDisplay = FilterDisplay(cards, f)
             /\ announcer = AnnounceResults(FilterCount(cards, f), Len(cards))
             /\ lastAttr = "filter"
             /\ lastTab = f
        ELSE /\ activeTabs \in { {}, { "all" } }
             /\ cardDisplay = [ i \in 1..Len(cards) |-> "" ]
             /\ announcer = << >>
             /\ lastAttr = "none"
             /\ lastTab = "none"
    /\ PageIdle /\ NavIdle /\ LazyIdle /\ PlanIdle /\ ClockIdle /\ ValIdle
    /\ ObsIdle /\ RestIdle

NextAttr ==
    \/ \E v \in SearchValues : SearchInput(v)
    \/ SearchAttractions
    \/ \E c \in TabCategories : FilterClick(c)

SpecAttr == InitAttr /\ [][NextAttr]_vars

Shown(i) == cardDisplay[i] # "none"

\* the search term as the search uses it: lower-cased and trimmed
TermNow == Trim(ToLower(searchValue))

\* the lower-cased term occurs in the card's lower-cased title, description
\* or location
TermIn(card) ==
    \E text \in { card.title, card.description, card.location } :
        Includes(ToLower(text), TermNow)

\* C3: when the attractions search has run, a term that is empty after
\* trimming shows every card, a term that occurs in no card's title,
\* description or location hides every card, and otherwise a card is shown
\* exactly when the lower-cased (trimmed) term is a substring of its
\* lower-cased title, description or location.
C3_SearchFilter ==
    lastAttr = "search" =>
        /\ TermNow = << >> => \A i \in 1..Len(cards) : Shown(i)
        /\ (\A i \in 1..Len(cards) : ~TermIn(cards[i])) =>
               \A i \in 1..Len(cards) : ~Shown(i)
        /\ TermNow # << >> => \A i \in 1..Len(cards) : Shown(i) <=> TermIn(cards[i])

\* a search with a padded, mixed-case term that shows one card on its
\* location alone and hides another
C3_Witness ==
    /\ lastAttr = "search"
    /\ Len(searchValue) > Len(TermNow)
    /\ searchValue # ToLower(searchValue)
    /\ \E i \in 1..Len(cards) :
        /\ Shown(i)
        /\ ~Includes(ToLower(cards[i].title), TermNow)
        /\ ~Includes(ToLower(cards[i].description), TermNow)
    /\ \E i \in 1..Len(cards) : ~Shown(i)

C3_WitnessNoMatch ==
    /\ lastAttr = "search"
    /\ TermNow # << >>
    /\ \A i \in 1..Len(cards) : ~Shown(i)

\* C4: once a search or a filter-tab click has run, the announcer text
\* 'Showing V of T attractions' has V equal to the number of cards not
\* hidden and T equal to the number of cards.
C4_AnnouncedCount ==
    announcer # << >> =>
        /\ announcer[1] = Cardinality({ i \in 1..Len(cards) : Shown(i) })
        /\ announcer[2] = Len(cards)

\* a filter click after a search, announcing fewer cards than the page has
C4_Witness ==
    /\ lastAttr = "filter"
    /\ searchValue # << >>
    /\ ~searchTimer
    /\ announcer # << >>
    /\ announcer[1] = 1
    /\ announcer[2] = NumCards
    /\ \E i \in 1..Len(cards) : ~Shown(i)

\* C17: the category filter is mutually exclusive: once a filter tab has
\* been clicked exactly one tab has the 'active' class, the last one
\* clicked, and immediately after a click the visible cards are exactly
\* those of the clicked tab's category (all cards when it is 'all').
C17_FilterExclusive ==
    /\ lastTab # "none" => activeTabs = { lastTab }
    /\ lastAttr = "filter" =>
           /\ lastTab \in TabCategories
           /\ \A i \in 1..Len(cards) :
                  Shown(i) <=> (lastTab = "all" \/ cards[i].category = lastTab)

\* a click on the churches tab while a term is in the search field and the
\* 'all' tab was active: churches is the only active tab, a card of another
\* category is hidden and a church card is shown
C17_Witness ==
    /\ lastAttr = "filter"
    /\ lastTab = "churches"
    /\ activeTabs = { "churches" }
    /\ searchValue # << >>
    /\ \E i \in 1..Len(cards) : Shown(i) /\ cards[i].category = "churches"
    /\ \E i \in 1..Len(cards) : ~Shown(i) /\ cards[i].category # "churches"

\* the card belongs to the category of the active tab: any category when
\* the active tab is 'all' or no tab is active
InActiveCategory(card) ==
    activeTabs = {} \/ \E c \in activeTabs : c = "all" \/ card.category = c

\* C18: the search is combined with the category filter: whenever the last
\* search run or tab click has finished and no search is pending, a card
\* is visible exactly when it matches the current search term and belongs
\* to the category of the active tab.
C18_SearchAndFilter ==
    (lastAttr \in { "search", "filter" } /\ ~searchTimer) =>
        \A i \in 1..Len(cards) :
            Shown(i) <=> /\ (TermNow = << >> \/ TermIn(cards[i]))
                         /\ InActiveCategory(cards[i])

\* a timeout of the debounce that is left pending does expire: setTimeout
\* runs later() after the wait, and only a new keystroke, which sets the
\* timeout again, cancels it
SpecAttrFair == SpecAttr /\ WF_searchTimer(Later)

\* the display the search gives the cards for the value now in the field
SearchDisplayNow ==
    [ i \in 1..Len(cards) |->
        IF TermNow = << >> \/ TermIn(cards[i]) THEN "" ELSE "none" ]

\* C26: the attractions search is debounced: a keystroke leaves the cards
\* and the announcer alone and leaves the timeout pending; the filter runs
\* only when the timeout expires, once per burst (no timeout is pending
\* after the run), with the value the field has at that time; and after a
\* keystroke the filter eventually runs, the cards then showing the search
\* of the final text.
C26_Debounced ==
    /\ [][ (lastAttr' = "input" =>
               (searchTimer' /\ cardDisplay' = cardDisplay /\ announcer' = announcer))
           /\
           (lastAttr' = "search" =>
               (searchTimer /\ ~searchTimer' /\ searchValue' = searchValue))
           /\
           (cardDisplay' # cardDisplay => lastAttr' \in { "search", "filter" })
         ]_vars
    /\ [](lastAttr = "search" => cardDisplay = SearchDisplayNow)
    /\ searchTimer ~> (~searchTimer /\ lastAttr = "search")

\* the search has run after a tab click and a change of the field, hiding
\* one card and showing another
C26_Witness ==
    /\ lastAttr = "search"
    /\ ~searchTimer
    /\ lastTab # "none"
    /\ TermNow # << >>
    /\ \E i \in 1..Len(cards) : Shown(i)
    /\ \E i \in 1..Len(cards) : ~Shown(i)

(***************************************************************************)
(* Stub API client (API.fetchAttractions, fetchBeaches, submitTripPlan)    *)
(***************************************************************************)

\* bound: console.error is followed up to MaxLog calls
MaxLog == 2

baseURL == "/api"

ApiRegions == { "all", "north", "south" }

\* the tripData argument of submitTripPlan
TripDatas == { "oneInterest", "twoInterests" }

\* the request an operation sends: its URL, as the pieces the template
\* literal joins, and its method
ApiRequest(op, arg) ==
    CASE op = "fetchAttractions" ->
             [ url |-> << baseURL, "/attractions" >>, method |-> "GET" ]
      [] op = "fetchBeaches" ->
             [ url |-> IF arg = "all" THEN << baseURL, "/beaches" >>
                       ELSE << baseURL, "/beaches/region/", arg >>,
               method |-> "GET" ]
      [] op = "submitTripPlan" ->
             [ url |-> << baseURL, "/trip/create-itinerary" >>, method |-> "POST" ]

ApiCalls ==
    { [ op |-> "fetchAttractions", arg |-> "none" ] }
        \cup { [ op |-> "fetchBeaches", arg |-> r ] : r \in ApiRegions }
        \cup { [ op |-> "submitTripPlan", arg |-> d ] : d \in TripDatas }

Statuses == { 200, 204, 299, 300, 404, 500 }

\* how a fetch settles: it rejects, or it resolves with a response whose
\* body parses as JSON or does not
Responses ==
    { [ kind |-> "rejected" ] }
        \cup [ kind : { "response" }, status : Statuses, json : { "ok", "bad" } ]

\* response.ok
ResponseOk(resp) == resp.status >= 200 /\ resp.status <= 299

\* control reaches the catch block: fetch rejected, the status was not OK,
\* or response.json() rejected
Caught(resp) ==
    \/ resp.kind = "rejected"
    \/ ~ResponseOk(resp)
    \/ resp.json = "bad"

\* error.message of the caught error
ErrorMessage(resp) ==
    IF resp.kind = "rejected" THEN << "Failed to fetch" >>
    ELSE IF ~ResponseOk(resp) THEN << "HTTP error! status: ", resp.status >>
    ELSE << "Unexpected token" >>

\* the catch block of the operation ends in throw error
Rethrows(op) == op = "submitTripPlan"

\* what the caller's await of the operation receives
ApiOutcome(op, resp) ==
    IF ~Caught(resp) THEN [ kind |-> "returned", success |-> TRUE ]
    ELSE IF Rethrows(op) THEN [ kind |-> "thrown", error |-> ErrorMessage(resp) ]
    ELSE [ kind |-> "returned", success |-> FALSE, error |-> ErrorMessage(resp) ]

\* an operation is called: it sends its request and awaits the fetch
ApiStart(call) ==
    /\ apiCall.op = "none" \/ apiFetch.kind # "pending"
    /\ apiLog < MaxLog
    /\ apiCall' = [ op |-> call.op, arg |-> call.arg,
                    request |-> ApiRequest(call.op, call.arg) ]
    /\ apiFetch' = [ kind |-> "pending" ]
    /\ apiResult' = [ kind |-> "none" ]
    /\ UNCHANGED apiLog
    /\ UNCHANGED <<pageVars, navVars, lazyVars, attrVars, planVars, clockVars,
                   valVars, obsVars, elemVars, beachVars, cultVars, topVars>>

\* the fetch settles and the operation runs to its return or throw
ApiSettle(resp) ==
    /\ apiCall.op # "none"
    /\ apiFetch.kind = "pending"
    /\ apiFetch' = resp
    /\ apiResult' = ApiOutcome(apiCall.op, resp)
    /\ apiLog' = IF Caught(resp) THEN apiLog + 1 ELSE apiLog
    /\ UNCHANGED apiCall
    /\ UNCHANGED <<pageVars, navVars, lazyVars, attrVars, planVars, clockVars,
                   valVars, obsVars, elemVars, beachVars, cultVars, topVars>>

InitApi ==
    /\ ApiIdle
    /\ PageIdle /\ NavIdle /\ LazyIdle /\ AttrIdle /\ PlanIdle /\ ClockIdle
    /\ ValIdle /\ ObsIdle /\ ElemIdle /\ BeachIdle /\ CultIdle /\ TopIdle

NextApi ==
    \/ \E call \in ApiCalls : ApiStart(call)
    \/ \E resp \in Responses : ApiSettle(resp)

SpecApi == InitApi /\ [][NextApi]_vars

\* C11: every stub API operation, when the fetch fails or the response
\* status is not OK, catches the failure and returns {success: false,
\* error}; none of them ever throws to its caller.
C11_NeverThrows ==
    /\ apiResult.kind # "thrown"
    /\ (apiResult.kind = "returned" /\ Caught(apiFetch)) =>
           (~apiResult.success /\ apiResult.error = ErrorMessage(apiFetch))

(***************************************************************************)
(* Element lookups: which initialisers register their listeners and what   *)
(* the listeners do when an element they look up is missing                *)
(***************************************************************************)

\* elements the script looks up by id or class
Elements ==
    { "menuToggle", "navMenu", "navLink", "backToTop", "searchInput",
      "filterTabs", "searchAnnouncer", "tripForm", "emailInput", "submitBtn" }

Initialisers ==
    { "initMobileNav", "initBackToTop", "initSearch", "initFilters",
      "initFormSubmission" }

\* the elements an initialiser returns without, its guard
Required(f) ==
    CASE f = "initMobileNav"      -> { "menuToggle", "navMenu" }
      [] f = "initBackToTop"      -> { "backToTop" }
      [] f = "initSearch"         -> { "searchInput" }
      [] f = "initFilters"        -> { "filterTabs" }
      [] f = "initFormSubmission" -> { "tripForm" }

\* the listeners an initialiser adds once its guard has passed
ListenersOf(f) ==
    CASE f = "initMobileNav"      -> { "toggleClick", "escapeKey", "documentClick" }
      [] f = "initBackToTop"      -> { "scroll", "backToTopClick" }
      [] f = "initSearch"         -> { "searchInput" }
      [] f = "initFilters"        -> { "filterClick" }
      [] f = "initFormSubmission" -> { "submit" }

Listeners == UNION { ListenersOf(f) : f \in Initialisers }

\* the elements a listener dereferences without a guard on a run; the
\* submit listener reads submitBtn.textContent once every check has passed
Dereferenced(l, outcome) ==
    IF l = "submit" /\ outcome = "accepted" THEN { "submitBtn" } ELSE {}

\* an initialiser runs: it registers its listeners, or returns at its guard
RunInitialiser(f) ==
    /\ registered' = IF Required(f) \subseteq present
                     THEN registered \cup ListenersOf(f)
                     ELSE registered
    /\ thrown' = "none"
    /\ UNCHANGED present
    /\ UNCHANGED <<pageVars, navVars, lazyVars, attrVars, planVars, clockVars,
                   valVars, obsVars, apiVars, beachVars, cultVars, topVars>>

\* a registered listener runs; for the submit listener f and sel are the
\* field values and the selected interests
RunListener(l, f, sel) ==
    /\ l \in registered
    /\ LET outcome == IF l = "submit"
                      THEN SubmitOutcome(f, sel, nowUTC, tzOffset)
                      ELSE "none"
       IN  thrown' = IF Dereferenced(l, outcome) \subseteq present
                     THEN "none"
                     ELSE "TypeError"
    /\ UNCHANGED <<present, registered>>
    /\ UNCHANGED <<pageVars, navVars, lazyVars, attrVars, planVars, clockVars,
                   valVars, obsVars, apiVars, beachVars, cultVars, topVars>>

\* elements inside another element exist only when it does
WellNested(els) ==
    /\ "navLink" \in els => "navMenu" \in els
    /\ "submitBtn" \in els => "tripForm" \in els
    /\ "emailInput" \in els => "tripForm" \in els

InitElems ==
    /\ present \in { els \in SUBSET Elements : WellNested(els) }
    /\ registered = {}
    /\ thrown = "none"
    /\ nowUTC = 2 * TicksPerDay + 25
    /\ tzOffset = 11
    /\ PageIdle /\ NavIdle /\ LazyIdle /\ AttrIdle /\ PlanIdle /\ ValIdle
    /\ ObsIdle /\ ApiIdle /\ BeachIdle /\ CultIdle /\ TopIdle

NextElems ==
    \/ \E f \in Initialisers : RunInitialiser(f)
    \/ \E l \in Listeners : \E f \in Forms :
           \E sel \in { << >>, << "beaches" >> } : RunListener(l, f, sel)

SpecElems == InitElems /\ [][NextElems]_vars

\* C12: whatever subset of the looked-up elements is missing, no
\* initialiser and no listener raises an error, the submit listener of a
\* form that passes validation but has no .submit-btn included.
C12_MissingElementsNoError == thrown = "none"

(***************************************************************************)
(* Utils.showNotification on its own: any number of callers, one followed  *)
(* notification                                                            *)
(***************************************************************************)

NoteTypes == { "success", "error", "info" }

\* a call of Utils.showNotification(message, type); follow says whether the
\* new notification becomes the followed one (tracked is its position in
\* the body)
Notify(type, follow) ==
    /\ Len(notifications) < MaxNotes
    /\ follow => tracked = 0
    /\ notifications' = ShowNotification(notifications, type, "message")
    /\ tracked' = IF follow THEN Len(notifications) + 1 ELSE tracked
    /\ planLast' = [ev |-> "show"]
    /\ UNCHANGED <<selectedInterests, activeTags, btnText, btnDisabled,
                   submitTimers, tagInterest, tagTrace, submitFacts>>
    /\ UNCHANGED <<pageVars, navVars, lazyVars, attrVars, clockVars, valVars,
                   restVars>>

\* the 300 ms timeout, the followed notification moving up one place or
\* leaving the body
NotificationRemoveTracked ==
    /\ NotificationRemoveStep
    /\ tracked' = IF tracked = 0 THEN 0 ELSE tracked - 1
    /\ UNCHANGED <<tagTrace, submitFacts>>

InitNotes ==
    /\ PageIdle /\ NavIdle /\ LazyIdle /\ AttrIdle /\ PlanIdle /\ ClockIdle
    /\ ValIdle /\ ObsIdle /\ RestIdle

NextNotes ==
    \/ \E type \in NoteTypes : \E follow \in BOOLEAN : Notify(type, follow)
    \/ NotificationSlideOut
    \/ NotificationRemoveTracked

\* a timeout that has been set does expire
SpecNotes ==
    /\ InitNotes
    /\ [][NextNotes]_vars
    /\ WF_vars(NotificationSlideOut)
    /\ WF_vars(NotificationRemoveTracked)

\* C15: every notification is transient: the followed notification stays in
\* the body until it is removed and is eventually removed, whatever other
\* notifications are shown meanwhile; a removal takes out the one
\* notification whose 4000 ms and 300 ms timeouts have both expired and
\* leaves every other notification in place.
C15_Transient ==
    /\ (tracked # 0) ~> (tracked = 0)
    /\ [](tracked <= Len(notifications))
    /\ [][ Len(notifications') < Len(notifications) =>
               (Head(notifications).leaving /\
                notifications' = Tail(notifications))
         ]_vars

\* another notification has just been removed while the followed one, shown
\* after it, is still in the body
C15_Witness ==
    /\ planLast.ev = "remove"
    /\ tracked # 0
    /\ tracked <= Len(notifications)

(***************************************************************************)
(* Interest tags on their own: any data-interest per tag, the last two     *)
(* clicks remembered                                                       *)
(***************************************************************************)

\* the data-interest values the tags of the page may carry
TagInterests == { InterestNames[i] : i \in 1..(NumTags + 1) }

\* the last two of the clicks, each with the tag and the selection before it
LastTwo(trace) == IF Len(trace) > 2 THEN Tail(trace) ELSE trace

\* the click listener of an interest tag, the click remembered
TagClickTraced(t) ==
    /\ TagClickStep(t)
    /\ tagTrace' = LastTwo(Append(tagTrace,
                                  [tag |-> t, before |-> selectedInterests]))
    /\ UNCHANGED <<tracked, submitFacts>>

InitTags ==
    /\ selectedInterests = << >>
    /\ activeTags = {}
    /\ btnText = initialText
    /\ btnDisabled = FALSE
    /\ submitTimers = << >>
    /\ notifications = << >>
    /\ tagInterest \in [ Tags -> TagInterests ]
    /\ planLast = [ev |-> "none"]
    /\ tracked = 0
    /\ tagTrace = << >>
    /\ submitFacts = {}
    /\ PageIdle /\ NavIdle /\ LazyIdle /\ AttrIdle /\ ClockIdle /\ ValIdle
    /\ RestIdle

NextTags == \E t \in Tags : TagClickTraced(t)

SpecTags == InitTags /\ [][NextTags]_vars

NoDuplicates(sel) == Len(sel) = Cardinality(Range(sel))

Without(sel, interest) == SelectSeq(sel, LAMBDA i : i # interest)

\* the last click appended an absent interest at the end, or removed a
\* present one and kept the order of the others
LastClickToggled ==
    tagTrace # << >> =>
        LET click == tagTrace[Len(tagTrace)]
            interest == tagInterest[click.tag]
        IN  IF interest \in Range(click.before)
            THEN selectedInterests = Without(click.before, interest)
            ELSE selectedInterests = Append(click.before, interest)

\* the last two clicks were on the same tag
SameTagTwice == Len(tagTrace) = 2 /\ tagTrace[1].tag = tagTrace[2].tag

\* C16 as stated: selectedInterests never holds an interest twice, a click
\* appends an absent interest at the end and removes a present one keeping
\* the order of the others, and two clicks in a row on the same tag restore
\* the previous contents, order included.
C16_OrderedSet ==
    /\ NoDuplicates(selectedInterests)
    /\ LastClickToggled
    /\ SameTagTwice => selectedInterests = tagTrace[1].before

\* C16 amended: as above, but two clicks in a row on the same tag restore
\* the set of selected interests; the sequence is restored when the interest
\* was absent or last before the two clicks, and otherwise the interest has
\* moved to the end, the others keeping their order.
C16_OrderedSetMovesToEnd ==
    /\ NoDuplicates(selectedInterests)
    /\ LastClickToggled
    /\ SameTagTwice =>
           LET before == tagTrace[1].before
               interest == tagInterest[tagTrace[1].tag]
           IN  /\ Range(selectedInterests) = Range(before)
               /\ selectedInterests =
                      IF interest \in Range(before)
                      THEN Append(Without(before, interest), interest)
                      ELSE before
               /\ (interest \notin Range(before)
                     \/ before[Len(before)] = interest) =>
                      selectedInterests = before

\* a selected interest that was not the last one, its tag clicked twice: it
\* is selected again, now at the end
C16_Witness ==
    /\ SameTagTwice
    /\ tagInterest[tagTrace[1].tag] \in Range(tagTrace[1].before)
    /\ selectedInterests # tagTrace[1].before
    /\ Range(selectedInterests) = Range(tagTrace[1].before)

\* C25: in every state reachable by interest-tag clicks from a page with no
\* active tag and nothing selected, whatever data-interest values the tags
\* carry, a tag has the 'active' class exactly when its data-interest value
\* is a member of selectedInterests.
C25_ActiveMatchesSelected ==
    \A t \in Tags : (t \in activeTags) <=> (tagInterest[t] \in Range(selectedInterests))

(***************************************************************************)
(* Beaches page (BeachesPage.initRegionFiltering, filterBeaches)           *)
(***************************************************************************)

\* bound: the page has NumBeaches beach cards
NumBeaches == 3

\* getAttribute('data-region') of an element without the attribute
noRegion == "null"

\* the data-region values of beach cards and of region cards
BeachRegions == { "north", "south", noRegion }
CardRegions == { "all", "north", "south", "central", noRegion }

CardKeys == { "Enter", " ", "Tab" }

BeachShowsExact(beachRegion, region) == beachRegion = region

\* line 448: region === 'all' || beachRegion === region
BeachShows(beachRegion, region) == region = "all" \/ beachRegion = region

\* visibleCount of filterBeaches after its loop
BeachCount(bs, region) ==
    Cardinality({ i \in 1..Len(bs) : BeachShows(bs[i], region) })

\* the text 'Showing V beaches in W' is <<V, W>>
Announcement(visibleCount, region) ==
    << visibleCount, IF region = "all" THEN "all regions" ELSE region >>

\* filterBeaches(region): the cards, the scroll to the beaches section when
\* the page has one, and the announcer, created when the page has none
FilterBeaches(region) ==
    /\ beachDisplay' = [ i \in 1..Len(beaches) |->
                           IF BeachShows(beaches[i], region) THEN "" ELSE "none" ]
    /\ beachScrolls' = IF beachScrolls = "noSection" THEN "noSection"
                       ELSE "section"
    /\ beachAnnouncer' = Announcement(BeachCount(beaches, region), region)
    /\ lastRegion' = region
    /\ UNCHANGED beaches
    /\ UNCHANGED <<pageVars, navVars, lazyVars, attrVars, planVars, clockVars,
                   valVars, obsVars, apiVars, elemVars, cultVars, topVars>>

\* a click on the region card of a region
RegionClick(region) == FilterBeaches(region)

\* a keydown on a region card: Enter and Space click it
RegionKeyDown(region, key) ==
    IF key = "Enter" \/ key = " "
    THEN FilterBeaches(region)
    ELSE UNCHANGED vars

\* the user scrolls back to the top of the page
ScrollTop ==
    /\ beachScrolls = "section"
    /\ beachScrolls' = "top"
    /\ UNCHANGED <<beaches, beachDisplay, beachAnnouncer, lastRegion>>
    /\ UNCHANGED <<pageVars, navVars, lazyVars, attrVars, planVars, clockVars,
                   valVars, obsVars, apiVars, elemVars, cultVars, topVars>>

\* the beaches page after BeachesPage.init(): every card as the markup has
\* it, no announcer yet
InitBeach ==
    /\ beaches \in [1..NumBeaches -> BeachRegions]
    /\ beachDisplay = [ i \in 1..NumBeaches |-> "" ]
    /\ beachAnnouncer = << >>
    /\ lastRegion = "none"
    /\ beachScrolls \in { "top", "noSection" }
    /\ PageIdle /\ NavIdle /\ LazyIdle /\ AttrIdle /\ PlanIdle /\ ClockIdle
    /\ ValIdle /\ ObsIdle /\ ApiIdle /\ ElemIdle /\ CultIdle /\ TopIdle

NextBeach ==
    \/ \E r \in CardRegions : RegionClick(r)
    \/ \E r \in CardRegions : \E key \in CardKeys : RegionKeyDown(r, key)
    \/ ScrollTop

SpecBeach == InitBeach /\ [][NextBeach]_vars

BeachShown(i) == beachDisplay[i] # "none"

\* C19: the region filter is single-select: once a region card has been
\* clicked, the visible beach cards are exactly those whose data-region
\* equals the region of the last clicked card (all cards when it is 'all'),
\* and the count in the announcer text is the number of visible beach cards.
C19_RegionFilter ==
    lastRegion # "none" =>
        /\ \A i \in 1..Len(beaches) :
              BeachShown(i) <=> (lastRegion = "all" \/ beaches[i] = lastRegion)
        /\ beachAnnouncer # << >>
        /\ beachAnnouncer[1] =
              Cardinality({ i \in 1..Len(beaches) : BeachShown(i) })

\* the north card clicked on a page with beaches of both regions: a north
\* beach is shown, a south beach hidden, and the announcer counts one or two
C19_Witness ==
    /\ lastRegion = "north"
    /\ \E i \in 1..Len(beaches) : BeachShown(i) /\ beaches[i] = "north"
    /\ \E i \in 1..Len(beaches) : ~BeachShown(i) /\ beaches[i] = "south"
    /\ beachAnnouncer = << Cardinality({ i \in 1..Len(beaches) : beaches[i] = "north" }),
                           "north" >>
    /\ beachScrolls = "section"

\* the 'all' card clicked on a page with beaches of different regions: every
\* beach is shown
C19_WitnessAll ==
    /\ lastRegion = "all"
    /\ beachAnnouncer = << NumBeaches, "all regions" >>
    /\ \A i \in 1..Len(beaches) : BeachShown(i)
    /\ \E i, j \in 1..Len(beaches) : beaches[i] # beaches[j]

(***************************************************************************)
(* Culture page (CulturePage.initTimelineAnimations, initCardAnimations)   *)
(***************************************************************************)

\* bound: the page has NumItems timeline items and cards
NumItems == 2

\* bound: the reveals of one item that are followed
MaxSchedules == 2

Items == 1..NumItems

\* '.timeline-item' elements have one observer, '.highlight-card' and
\* '.heritage-card' elements another
ItemKinds == { "timeline", "card" }

UnobserveNone(obs, entries) == obs

\* observer.unobserve(entry.target) for the intersecting entries of a batch
Unobserve(obs, entries) == obs \ entries

\* CulturePage.init(): with IntersectionObserver every item is hidden and
\* observed, and the observers queue a first entry for the items that
\* intersect; without it nothing is touched
CultureInit ==
    /\ ~cultInitDone
    /\ cultInitDone' = TRUE
    /\ IF ioAvailable
       THEN /\ itemStyle' = [ i \in Items |-> "0" ]
            /\ cultObserved' = Items
            /\ cultPending' = cultViewport
       ELSE UNCHANGED <<itemStyle, cultObserved, cultPending>>
    /\ UNCHANGED <<itemKind, cultViewport, scheduled>>
    /\ UNCHANGED <<pageVars, navVars, lazyVars, attrVars, planVars, clockVars,
                   valVars, obsVars, apiVars, elemVars, beachVars, topVars>>

\* the user scrolls: inView is the set of items that now intersect; the
\* observers queue an intersecting entry for each observed item that has
\* come into view
ScrollItems(inView) ==
    /\ inView # cultViewport
    /\ cultViewport' = inView
    /\ cultPending' = cultPending \cup ((inView \ cultViewport) \cap cultObserved)
    /\ UNCHANGED <<itemKind, cultInitDone, cultObserved, itemStyle, scheduled>>
    /\ UNCHANGED <<pageVars, navVars, lazyVars, attrVars, planVars, clockVars,
                   valVars, obsVars, apiVars, elemVars, beachVars, topVars>>

\* the callback of the observer of a kind runs with the queued batch: each
\* intersecting entry gets a reveal timeout and its target is unobserved
ObserverBatch(kind) ==
    LET entries == { i \in cultPending : itemKind[i] = kind }
    IN  /\ entries # {}
        /\ \A i \in entries : scheduled[i].count < MaxSchedules
        /\ scheduled' = [ i \in Items |->
                            IF i \in entries
                            THEN [ count |-> scheduled[i].count + 1,
                                   due |-> scheduled[i].due + 1 ]
                            ELSE scheduled[i] ]
        /\ cultObserved' = Unobserve(cultObserved, entries)
        /\ cultPending' = cultPending \ entries
        /\ UNCHANGED <<itemKind, cultInitDone, itemStyle, cultViewport>>
        /\ UNCHANGED <<pageVars, navVars, lazyVars, attrVars, planVars,
                       clockVars, valVars, obsVars, apiVars, elemVars,
                       beachVars, topVars>>

\* the reveal timeout of an item expires
RevealTimerFire(i) ==
    /\ scheduled[i].due > 0
    /\ itemStyle' = [ itemStyle EXCEPT ![i] = "1" ]
    /\ scheduled' = [ scheduled EXCEPT ![i].due = @ - 1 ]
    /\ UNCHANGED <<itemKind, cultInitDone, cultObserved, cultPending,
                   cultViewport>>
    /\ UNCHANGED <<pageVars, navVars, lazyVars, attrVars, planVars, clockVars,
                   valVars, obsVars, apiVars, elemVars, beachVars, topVars>>

\* the culture page as loaded, before DOMContentLoaded: the items as the
\* markup has them, any of them in view
InitCulture ==
    /\ itemKind \in [ Items -> ItemKinds ]
    /\ cultInitDone = FALSE
    /\ cultObserved = {}
    /\ cultPending = {}
    /\ itemStyle = [ i \in Items |-> "" ]
    /\ cultViewport \in SUBSET Items
    /\ scheduled = [ i \in Items |-> [ count |-> 0, due |-> 0 ] ]
    /\ ioAvailable \in BOOLEAN
    /\ lazyInitDone = FALSE
    /\ observed = {}
    /\ imgLoaded = {}
    /\ inViewport = {}
    /\ PageIdle /\ NavIdle /\ AttrIdle /\ PlanIdle /\ ClockIdle /\ ValIdle
    /\ ObsIdle /\ ApiIdle /\ ElemIdle /\ BeachIdle /\ TopIdle

NextCulture ==
    \/ CultureInit
    \/ \E inView \in SUBSET Items : ScrollItems(inView)
    \/ \E kind \in ItemKinds : ObserverBatch(kind)
    \/ \E i \in Items : RevealTimerFire(i)

\* a queued observer callback does run and a timeout that was set expires
SpecCulture ==
    /\ InitCulture
    /\ [][NextCulture]_vars
    /\ \A kind \in ItemKinds : WF_vars(ObserverBatch(kind))
    /\ \A i \in Items : WF_vars(RevealTimerFire(i))

\* C20: reveal-on-scroll is one-shot. With IntersectionObserver every item
\* is hidden (opacity 0) from initialisation until its reveal; an item is
\* unobserved exactly when its reveal has been scheduled, which happens at
\* most once; an item that has come into view eventually has opacity 1; an
\* item with opacity 1 keeps it. Without IntersectionObserver no item ever
\* has opacity 0.
C20_RevealOnce ==
    /\ [](\A i \in Items :
            /\ scheduled[i].count <= 1
            /\ (cultInitDone /\ ioAvailable) =>
                   /\ (i \notin cultObserved) <=> (scheduled[i].count = 1)
                   /\ (scheduled[i].count = 0) => itemStyle[i] = "0"
                   /\ (itemStyle[i] # "0") => itemStyle[i] = "1"
            /\ ~ioAvailable => itemStyle[i] # "0")
    /\ [][ \A i \in Items : itemStyle[i] = "1" => itemStyle'[i] = "1" ]_vars
    /\ \A i \in Items : (i \in cultPending) ~> (itemStyle[i] = "1")

\* an item was revealed and has left the viewport again, staying visible,
\* while another item is still hidden and observed
C20_Witness ==
    /\ cultInitDone /\ ioAvailable
    /\ \E i \in Items :
        /\ itemStyle[i] = "1"
        /\ scheduled[i] = [ count |-> 1, due |-> 0 ]
        /\ i \notin cultViewport
        /\ i \notin cultObserved
    /\ \E j \in Items : itemStyle[j] = "0" /\ j \in cultObserved

\* a page without IntersectionObserver, initialised and scrolled
C20_WitnessNoObserver ==
    /\ cultInitDone /\ ~ioAvailable
    /\ cultViewport # {}
    /\ \A i \in Items : itemStyle[i] = ""

(***************************************************************************)
(* Back-to-top control (SharedFeatures.initBackToTop, Utils.throttle)      *)
(***************************************************************************)

\* bound: the page scrolls over MaxScrollSteps steps of a hundred pixels
MaxScrollSteps == 6

\* line 152: window.pageYOffset > 300
ShowOffset == 300

\* the scroll offsets a scroll event can report
ScrollOffsets == { 100 * k : k \in 0..MaxScrollSteps } \cup { ShowOffset + 1 }

\* the condition of the scroll handler
ShowsPast(y) == y > ShowOffset

\* a scroll event at offset y: the throttled handler runs when no throttle
\* timeout is pending, and the event is dropped otherwise
ScrollEvent(y) ==
    /\ pageYOffset' = y
    /\ IF ~inThrottle
       THEN /\ topVisible' = ShowsPast(y)
            /\ inThrottle' = TRUE
            /\ handledAt' = y
       ELSE UNCHANGED <<topVisible, inThrottle, handledAt>>
    /\ UNCHANGED <<pageVars, navVars, lazyVars, attrVars, planVars, clockVars,
                   valVars, obsVars, apiVars, elemVars, beachVars, cultVars>>

\* the page is scrolled to another offset
Scroll(y) == y # pageYOffset /\ ScrollEvent(y)

\* the 100 ms timeout of the throttle expires
ThrottleTimerFire ==
    /\ inThrottle
    /\ inThrottle' = FALSE
    /\ UNCHANGED <<pageYOffset, topVisible, handledAt>>
    /\ UNCHANGED <<pageVars, navVars, lazyVars, attrVars, planVars, clockVars,
                   valVars, obsVars, apiVars, elemVars, beachVars, cultVars>>

\* a click on the control: window.scrollTo({top: 0}) and the scroll event
\* that the arrival at the top dispatches
BackToTopClick ==
    /\ pageYOffset # 0
    /\ ScrollEvent(0)

\* the page after initBackToTop, not scrolled
InitTop ==
    /\ pageYOffset = 0
    /\ topVisible = FALSE
    /\ inThrottle = FALSE
    /\ handledAt = 0 - 1
    /\ PageIdle /\ NavIdle /\ LazyIdle /\ AttrIdle /\ PlanIdle /\ ClockIdle
    /\ ValIdle /\ ObsIdle /\ ApiIdle /\ ElemIdle /\ BeachIdle /\ CultIdle

NextTop ==
    \/ \E y \in ScrollOffsets : Scroll(y)
    \/ ThrottleTimerFire
    \/ BackToTopClick

SpecTop == InitTop /\ [][NextTop]_vars

\* C21: the back-to-top control is shown past the scroll offset 300 and
\* hidden otherwise: whenever no throttle timeout is pending (so that the
\* scrolling may have stopped there), the control has the 'visible' class
\* exactly when the page's scroll offset is greater than 300.
C21_BackToTopVisible ==
    ~inThrottle => (topVisible <=> pageYOffset > ShowOffset)

(***************************************************************************)
(* Trip form submissions, the submitted values remembered                  *)
(***************************************************************************)

\* the checks of the submit listener, in the order it makes them
CheckOrder == << "email", "dates", "travelers", "interests" >>

\* the check an outcome belongs to
CheckOf(outcome) ==
    CASE outcome \in { "emailMissing", "emailInvalid" } -> "email"
      [] outcome \in { "checkin", "checkout" } -> "dates"
      [] outcome = "travelers" -> "travelers"
      [] outcome = "interests" -> "interests"
      [] OTHER -> "none"

\* the position of a check in the order
Position(check) == CHOOSE n \in 1..Len(CheckOrder) : CheckOrder[n] = check

\* validateEmail of every value the e-mail field can hold
EmailVerdict == [ e \in FormEmails |-> ValidateEmail(e) ]

\* what holds of the field values f and the selection sel at a submit
SubmitFacts(f, sel) ==
    { c \in Range(CheckOrder) :
        \/ c = "email" /\ EmailVerdict[f.email] # "valid"
        \/ c = "dates" /\ ValidateDates(f.checkin, f.checkout, nowUTC, tzOffset) # "valid"
        \/ c = "travelers" /\ f.travelers = ""
        \/ c = "interests" /\ sel = << >> }
    \cup (IF f.checkin = NoDate \/ f.checkout = NoDate THEN { "missingDate" } ELSE {})

\* a submit event of the trip form, what held of its values remembered
SubmitTraced(f) ==
    /\ SubmitStep(f)
    /\ submitFacts' = SubmitFacts(f, selectedInterests)
    /\ UNCHANGED <<tracked, tagTrace>>

\* the other handlers of the plan page: what was remembered of the last
\* submit is dropped
Forget == submitFacts' = {} /\ UNCHANGED <<tracked, tagTrace>>

TagClickAfter(t) == TagClickStep(t) /\ Forget
SubmitTimerFireAfter == SubmitTimerFireStep /\ Forget
NotificationSlideOutAfter == NotificationSlideOutStep /\ Forget
NotificationRemoveAfter == NotificationRemoveStep /\ Forget

NextSubmit ==
    \/ \E t \in Tags : TagClickAfter(t)
    \/ \E f \in Forms : SubmitTraced(f)
    \/ SubmitTimerFireAfter
    \/ NotificationSlideOutAfter
    \/ NotificationRemoveAfter

SpecSubmit == InitForm /\ [][NextSubmit]_vars

\* the checks the submitted values fail
Failed == submitFacts \cap Range(CheckOrder)

C23_WitnessPending ==
    /\ planLast.ev = "submit"
    /\ planLast.outcome = "travelers"
    /\ submitTimers # << >>
    /\ btnDisabled
    /\ btnText = creatingText

\* C24: a submission with a missing check-in or check-out date never starts
\* a simulated submission, and when its e-mail is valid it is the date
\* validation that rejects it.
C24_MissingDateRejected ==
    (planLast.ev = "submit" /\ "missingDate" \in submitFacts) =>
        /\ planLast.outcome # "accepted"
        /\ "email" \notin submitFacts => planLast.outcome \in { "checkin", "checkout" }

====
